---- MODULE Spec2Model ----
(***************************************************************************)
(* Scheduling simulation engine (scheduler.js): simulate(algorithm,        *)
(* processes, options) and its five variant simulators, modelled as a      *)
(* state machine whose steps are the engine's loop iterations and time     *)
(* units.  A process's pid is its position in the input list.              *)
(***************************************************************************)
EXTENDS Integers, Sequences, FiniteSets

\* ---------------------------------------------------------------- bounds
MaxProcs == 3
MaxArrival == 2
MaxBurst == 2
MaxPriority == 1
MaxQuantum == 1
MaxProcsFair == 2
MaxHistory == 4
MaxFrames == 6

\* ------------------------------------------------------------- constants
\* JavaScript null and undefined; every time, quantum and pid is >= 0.
NULL == -1
UNDEF == -2
DefaultQuantum == 4
DefaultFgQuantum == 2
DefaultBgQuantum == 4
maxIter == 200000

Min(a, b) == IF a < b THEN a ELSE b

\* a ?? d
Coalesce(a, d) == IF a = NULL \/ a = UNDEF THEN d ELSE a

\* ---------------------------------------------------------------- inputs
\* A process descriptor of the input list; priority may be left out (UNDEF).
Descriptor(a, b, pr) == [arrival |-> a, burst |-> b, priority |-> pr]

\* The sample loaded by the interface: P1(0,5,0) P2(1,3,1) P3(2,8,0) P4(3,6,2).
Sample ==
  << Descriptor(0, 5, 0), Descriptor(1, 3, 1), Descriptor(2, 8, 0), Descriptor(3, 6, 2) >>

\* The same processes given without priorities: P1(0,5) P2(1,3) P3(2,8) P4(3,6).
SamplePlain == [ i \in 1..Len(Sample) |-> [Sample[i] EXCEPT !.priority = UNDEF] ]

Algorithms == { "RR", "FCFS", "SJF", "PRIORITY", "MLQ" }

\* The process lists given to an algorithm: up to max processes in any
\* order, with priorities for the algorithms that read them (PRIORITY, MLQ) and
\* without for the others, and the sample.
ListsUpTo(alg, max) ==
  LET prios == IF alg \in {"PRIORITY", "MLQ"} THEN 0..MaxPriority ELSE {UNDEF}
      D == { Descriptor(a, b, pr) : a \in 0..MaxArrival, b \in 1..MaxBurst, pr \in prios }
  IN  UNION { [1..n -> D] : n \in 1..max }
        \cup { IF alg \in {"PRIORITY", "MLQ"} THEN Sample ELSE SamplePlain }

ProcessListsFor(alg) == ListsUpTo(alg, MaxProcs)

NoOptions == [quantum |-> UNDEF, mlqFgQuantum |-> UNDEF, mlqBgQuantum |-> UNDEF]

\* The options given with an algorithm: none at all, or what the interface
\* builds: quantum for RR; for MLQ the foreground quantum and the background
\* quantum, which is null when its field is empty.
OptionsFor(alg) ==
  { NoOptions } \cup
  CASE alg = "RR" -> { [NoOptions EXCEPT !.quantum = q] : q \in 1..MaxQuantum }
    [] alg = "MLQ" ->
         { [NoOptions EXCEPT !.mlqFgQuantum = f, !.mlqBgQuantum = b] :
             f \in 1..MaxQuantum, b \in {NULL} \cup 1..MaxQuantum }
    [] OTHER -> { }

VARIABLES
  algorithm,   \* simulate's algorithm tag
  processes,   \* simulate's process list
  options,     \* simulate's options
  procs,       \* the simulator's runtime process states, in array order
  time,
  readyQueue,  \* readyQueue of RR and FCFS, readyList of SJF and PRIORITY (pids)
  fgQueue,
  bgQueue,
  history,     \* historySnapshots
  trace,
  iter,
  pc,          \* "loop" | "exec" | "execFg" | "execBg" | "done"
  pid,         \* the pid taken off the queue by the current iteration, or NULL
  run,         \* the slice length computed at dispatch, or NULL
  t,           \* units executed in the current slice
  admissions,  \* log of the pushes made by enqueueArrivals: <<pid, time>>
  outcome,     \* "running", then how simulate ended: "returned" or the error thrown
  stats,       \* the statistics simulate returns
  previous,    \* what an earlier call of simulate with the same arguments returned
  animator     \* the interface's Animator object

vars == << algorithm, processes, options, procs, time, readyQueue, fgQueue, bgQueue,
           history, trace, iter, pc, pid, run, t, admissions, outcome, stats,
           previous, animator >>

\* ------------------------------------------------------------ simulate()
\* The simulator simulate's switch selects.
Variant(alg) == IF alg \in Algorithms THEN alg ELSE "RR"

quantum == Coalesce(options.quantum, DefaultQuantum)
fgQuantum == Coalesce(options.mlqFgQuantum, DefaultFgQuantum)
bgQuantum == Coalesce(options.mlqBgQuantum, DefaultBgQuantum)

\* simulate's procsIn (priority defaults to 0) and the simulator's
\* procsIn.map(p => ({...p, remaining: p.burst, startTime: null, ...}))
InitialState(list) ==
  [ i \in 1..Len(list) |->
      [ pid |-> i, arrival |-> list[i].arrival, burst |-> list[i].burst,
        priority |-> IF list[i].priority # UNDEF THEN list[i].priority ELSE 0,
        remaining |-> list[i].burst,
        startTime |-> NULL, completionTime |-> NULL, enqueued |-> FALSE,
        turnaround |-> NULL, waiting |-> NULL ] ]

\* Array.prototype.sort(compare), which is stable.  cmp[i][j] is compare(s[i], s[j]);
\* an element's place is the number of elements that compare before it, or
\* compare equal and stand before it.
StableSort(s, cmp) ==
  LET n == Len(s)
      Rank(i) == Cardinality({ j \in 1..n : cmp[j][i] < 0 \/ (cmp[j][i] = 0 /\ j < i) })
  IN  [ k \in 1..n |-> s[CHOOSE i \in 1..n : Rank(i) = k - 1] ]

CmpArrival(a, b) == a.arrival - b.arrival

\* Mutant of SortedProcs: no variant sorts procs.
UnsortedProcs(alg, ps) == ps

\* procs.sort((a,b) => a.arrival - b.arrival) in RR, FCFS and MLQ; SJF and
\* PRIORITY keep the input order.
SortedProcs(alg, ps) ==
  IF alg \in {"RR", "FCFS", "MLQ"}
    THEN StableSort(ps, [ i \in 1..Len(ps) |->
                          [ j \in 1..Len(ps) |-> CmpArrival(ps[i], ps[j]) ] ])
    ELSE ps

\* --------------------------------------------------------------- helpers
\* procs.find(x => x.pid === id)
Idx(ps, id) == CHOOSE i \in 1..Len(ps) : ps[i].pid = id /\ \A j \in 1..(i - 1) : ps[j].pid # id

Proc(id) == procs[Idx(procs, id)]

\* pids of a list of process states
Pids(ps) == [ i \in 1..Len(ps) |-> ps[i].pid ]

\* Mutant of Arriving: a process is pushed whether or not it has arrived.
ArrivingAtOnce(p, tm) == ~p.enqueued /\ p.remaining > 0

\* The condition of enqueueArrivals' if.
Arriving(p, tm) == ~p.enqueued /\ p.arrival <= tm /\ p.remaining > 0

\* enqueueArrivals(): every process that is arriving, in array order, is pushed and
\* marked enqueued.  MLQ routes priority 0 to fgQueue and the others to bgQueue.
ArrivalsOf(ps, tm) == SelectSeq(ps, LAMBDA p : Arriving(p, tm))

\* Mutant of MarkEnqueued: a pushed process is not marked.
MarkEnqueuedNever(ps, tm) == ps

MarkEnqueued(ps, tm) ==
  [ i \in 1..Len(ps) |-> IF Arriving(ps[i], tm) THEN [ps[i] EXCEPT !.enqueued = TRUE] ELSE ps[i] ]

IsForeground(p) == p.priority = 0

enqueueArrivals(alg, ps, tm, rq, fg, bg, log) ==
  LET new == ArrivalsOf(ps, tm)
  IN  [ procs |-> MarkEnqueued(ps, tm),
        readyQueue |-> IF alg = "MLQ" THEN rq ELSE rq \o Pids(new),
        fgQueue |-> IF alg = "MLQ" THEN fg \o Pids(SelectSeq(new, IsForeground)) ELSE fg,
        bgQueue |-> IF alg = "MLQ"
                      THEN bg \o Pids(SelectSeq(new, LAMBDA p : ~IsForeground(p))) ELSE bg,
        admissions |-> log \o [ i \in 1..Len(new) |-> << new[i].pid, tm >> ] ]

\* makeProcessState(list)
makeProcessState(ps) ==
  [ i \in 1..Len(ps) |->
      [ pid |-> ps[i].pid, arrival |-> ps[i].arrival, burst |-> ps[i].burst,
        remaining |-> ps[i].remaining, startTime |-> ps[i].startTime,
        completionTime |-> ps[i].completionTime, priority |-> ps[i].priority ] ]

snapshotState(tm, cpu, ps, ready) ==
  [ time |-> tm, cpu |-> cpu, ready |-> ready, procs |-> makeProcessState(ps) ]

\* A trace entry; event is 'idle' or exec(<cpu>).
traceEvent(tm, cpu, ready) ==
  [ time |-> tm, cpu |-> cpu, ready |-> ready, event |-> IF cpu = NULL THEN "idle" ELSE "exec" ]

\* The ready contents an exec snapshot shows.
ReadyView(alg, rq, fg, bg) == IF alg = "MLQ" THEN fg \o bg ELSE rq

\* The ready contents an idle snapshot shows: readyQueue in RR and FCFS, [] otherwise.
IdleReadyView(alg, rq) == IF alg \in {"RR", "FCFS"} THEN rq ELSE << >>

\* The while condition of the simulation loop.
QueuesEmpty(alg, rq, fg, bg) ==
  IF alg = "MLQ" THEN Len(fg) = 0 /\ Len(bg) = 0 ELSE Len(rq) = 0

\* procs.some(p => p.remaining > 0)
SomeRemaining(ps) == { i \in 1..Len(ps) : ps[i].remaining > 0 } # {}

LoopCondition ==
  /\ ~(~SomeRemaining(procs) /\ QueuesEmpty(Variant(algorithm), readyQueue, fgQueue, bgQueue))
  /\ iter < maxIter

\* procs.find(p => !p.enqueued && p.remaining > 0): the first in array order.
NextPending(ps) ==
  LET S == { i \in 1..Len(ps) : ~ps[i].enqueued /\ ps[i].remaining > 0 }
  IN  IF S = {} THEN NULL ELSE CHOOSE i \in S : \A j \in S : i <= j

\* ---------------------------------------------------------- computeStats
\* A JavaScript number as computeStats produces it: the quotient num / den of
\* two integers, NaN, Infinity or -Infinity.
JSNumber(k, n, d) == [kind |-> k, num |-> n, den |-> d]
Finite(n) == JSNumber("finite", n, 1)
NaN == JSNumber("NaN", 0, 1)
PosInfinity == JSNumber("Infinity", 0, 1)
NegInfinity == JSNumber("-Infinity", 0, 1)

\* a / b on integers, as IEEE 754 division gives it.
Divide(a, b) ==
  IF b # 0 THEN JSNumber("finite", a, b)
  ELSE IF a = 0 THEN NaN
  ELSE IF a > 0 THEN PosInfinity ELSE NegInfinity

\* reduce((s,x) => s + ..., 0)
RECURSIVE SumOf(_)
SumOf(s) == IF Len(s) = 0 THEN 0 ELSE Head(s) + SumOf(Tail(s))

\* Math.max(...s) and Math.min(...s) of a non-empty list of integers.
MaxOf(s) == CHOOSE x \in { s[i] : i \in 1..Len(s) } : \A i \in 1..Len(s) : s[i] <= x
MinOf(s) == CHOOSE x \in { s[i] : i \in 1..Len(s) } : \A i \in 1..Len(s) : x <= s[i]

\* The statistics before simulate has returned.
NoStats ==
  [ avgWaiting |-> JSNumber("unset", 0, 1), avgTurnaround |-> JSNumber("unset", 0, 1),
    makespan |-> JSNumber("unset", 0, 1), throughput |-> JSNumber("unset", 0, 1) ]

\* Mutant of computeStats: makespan is the last completion time, counted from 0.
computeStatsFromZero(ps) ==
  LET total == Len(ps)
      cts == [ i \in 1..total |-> ps[i].completionTime ]
  IN  [ avgWaiting |-> Divide(SumOf([ i \in 1..total |-> ps[i].turnaround - ps[i].burst ]), total),
        avgTurnaround |-> Divide(SumOf([ i \in 1..total |-> ps[i].turnaround ]), total),
        makespan |-> IF total = 0 THEN NegInfinity ELSE Finite(MaxOf(cts)),
        throughput |-> Divide(total, IF total # 0 /\ MaxOf(cts) > 1 THEN MaxOf(cts) ELSE 1) ]

\* computeStats(procs).  Of no process Math.max() is -Infinity and Math.min()
\* is Infinity, so that makespan is -Infinity and Math.max(1, lastTime) is 1.
computeStats(ps) ==
  LET total == Len(ps)
      cts == [ i \in 1..total |-> ps[i].completionTime ]
      lastTime == IF total = 0 THEN NegInfinity ELSE Finite(MaxOf(cts))
  IN  [ avgWaiting |-> Divide(SumOf([ i \in 1..total |-> ps[i].turnaround - ps[i].burst ]), total),
        avgTurnaround |-> Divide(SumOf([ i \in 1..total |-> ps[i].turnaround ]), total),
        makespan |-> IF total = 0 THEN NegInfinity
                     ELSE Finite(MaxOf(cts) - MinOf([ i \in 1..total |-> ps[i].arrival ])),
        throughput |-> Divide(total, IF lastTime.kind = "finite" /\ lastTime.num > 1
                                     THEN lastTime.num ELSE 1) ]

\* ------------------------------------------------------------------ Init
\* No earlier call has returned.
NoResult == [returned |-> FALSE, trace |-> << >>, historySnapshots |-> << >>, stats |-> NoStats]

\* new Animator(canvas): the fields the constructor sets.  pending holds the
\* animation frames requested and neither run nor cancelled, requests counts
\* the calls of requestAnimationFrame, whose handles are 1, 2, ...
NewAnimator ==
  [ history |-> << >>, current |-> 0, playing |-> FALSE, raf |-> NULL,
    pending |-> {}, requests |-> 0 ]

\* The simulator's state when it enters its loop, for the arguments simulate
\* was called with.
Start ==
  /\ \E e \in { enqueueArrivals(Variant(algorithm),
                                  SortedProcs(Variant(algorithm), InitialState(processes)),
                                  0, << >>, << >>, << >>, << >>) } :
         /\ procs = e.procs
         /\ readyQueue = e.readyQueue
         /\ fgQueue = e.fgQueue
         /\ bgQueue = e.bgQueue
         /\ admissions = e.admissions
  /\ time = 0
  /\ history = << >>
  /\ trace = << >>
  /\ iter = 0
  /\ pc = "loop"
  /\ pid = NULL
  /\ run = NULL
  /\ t = 0
  /\ outcome = "running"
  /\ stats = NoStats
  /\ previous = NoResult
  /\ animator = NewAnimator

InitFor(algs) ==
  /\ algorithm \in algs
  /\ processes \in ProcessListsFor(algorithm)
  /\ options \in OptionsFor(algorithm)
  /\ Start

\* ------------------------------------------------------------------ Idle
\* Mutant of IdleEvents: the jump to the next arrival leaves one idle snapshot.
IdleEventsOnce(alg, from, to, ps, rq) ==
  IF to > from THEN << snapshotState(from, NULL, ps, IdleReadyView(alg, rq)) >> ELSE << >>

\* The idle branch of a loop iteration: the ready structures are empty and a
\* process is still to be admitted; one idle snapshot per unit until jumpTo.
IdleEvents(alg, from, to, ps, rq) ==
  [ k \in 1..(IF to > from THEN to - from ELSE 0) |->
      snapshotState(from + k - 1, NULL, ps, IdleReadyView(alg, rq)) ]

Idle ==
  /\ pc = "loop"
  /\ LoopCondition
  /\ LET alg == Variant(algorithm)
         e0 == enqueueArrivals(alg, procs, time, readyQueue, fgQueue, bgQueue, admissions)
         next == NextPending(e0.procs)
     IN  /\ QueuesEmpty(alg, e0.readyQueue, e0.fgQueue, e0.bgQueue)
         /\ next # NULL
         /\ LET jumpTo == e0.procs[next].arrival
                snaps == IdleEvents(alg, time, jumpTo, e0.procs, e0.readyQueue)
                time1 == IF jumpTo > time THEN jumpTo ELSE time
                e1 == enqueueArrivals(alg, e0.procs, time1, e0.readyQueue, e0.fgQueue,
                                      e0.bgQueue, e0.admissions)
            IN  /\ history' = history \o snaps
                /\ trace' = trace \o [ k \in 1..Len(snaps) |->
                                         traceEvent(snaps[k].time, NULL, snaps[k].ready) ]
                /\ time' = time1
                /\ procs' = e1.procs
                /\ readyQueue' = e1.readyQueue
                /\ fgQueue' = e1.fgQueue
                /\ bgQueue' = e1.bgQueue
                /\ admissions' = e1.admissions
  /\ iter' = iter + 1
  /\ pid' = NULL
  /\ run' = NULL
  /\ t' = 0
  /\ UNCHANGED << algorithm, processes, options, pc, outcome, stats, previous, animator >>

\* -------------------------------------------------------------- Dispatch
\* Mutant of CmpSJF: the ready list is ordered by arrival alone.
CmpSJFByArrival(a, b) == a.arrival - b.arrival

\* readyList.sort((a,b) => a.remaining - b.remaining || a.arrival - b.arrival)
CmpSJF(a, b) ==
  IF a.remaining - b.remaining # 0 THEN a.remaining - b.remaining ELSE a.arrival - b.arrival

\* Mutant of CmpPriority: the burst tie-break is left out.
CmpPriorityNoBurst(a, b) ==
  IF a.priority - b.priority # 0 THEN a.priority - b.priority ELSE a.arrival - b.arrival

\* readyList.sort((a,b) => a.priority - b.priority || a.arrival - b.arrival || a.burst - b.burst)
CmpPriority(a, b) ==
  IF a.priority - b.priority # 0 THEN a.priority - b.priority
  ELSE IF a.arrival - b.arrival # 0 THEN a.arrival - b.arrival
  ELSE a.burst - b.burst

\* The ready structure as the selection sees it: sorted in place by SJF and
\* PRIORITY (readyList holds the process states), as it stands otherwise.
States(ps, q) == [ i \in 1..Len(q) |-> ps[Idx(ps, q[i])] ]

SelectionOrder(alg, ps, rq) ==
  LET r == States(ps, rq)
      n == Len(rq)
  IN  CASE alg = "SJF" ->
             Pids(StableSort(r, [ i \in 1..n |-> [ j \in 1..n |-> CmpSJF(r[i], r[j]) ] ]))
        [] alg = "PRIORITY" ->
             Pids(StableSort(r, [ i \in 1..n |-> [ j \in 1..n |-> CmpPriority(r[i], r[j]) ] ]))
        [] OTHER -> rq

\* Mutant of ServeForeground: the background is served whenever it has work.
ServeForegroundOnlyIfBgEmpty(fg, bg) == Len(bg) = 0

\* MLQ: if (fgQueue.length > 0) serve the foreground, else the background.
ServeForeground(fg, bg) == Len(fg) > 0

\* bgQuantum == null
RunsToCompletion(bgq) == bgq = NULL \/ bgq = UNDEF

\* Mutant of SliceLength: the quantum is ignored, a turn lasts for all of remaining.
SliceLengthIgnoringQuantum(alg, branch, rem) == IF alg \in {"RR", "MLQ"} THEN rem ELSE NULL

\* Mutant of SliceLength: every variant preempts after one unit.
SliceLengthOneUnit(alg, branch, rem) == Min(1, rem)

\* The slice length computed at dispatch, Math.min(<quantum>, p.remaining); NULL
\* where the process runs in a while (p.remaining > 0) loop.
SliceLength(alg, branch, rem) ==
  CASE alg = "RR" -> Min(quantum, rem)
    [] alg = "MLQ" /\ branch = "execFg" -> Min(fgQuantum, rem)
    [] alg = "MLQ" /\ branch = "execBg" /\ ~RunsToCompletion(bgQuantum) -> Min(bgQuantum, rem)
    [] OTHER -> NULL

Executing == pc \in {"exec", "execFg", "execBg"}

\* Mutant of StartTimeAt: every dispatch sets startTime.
StartTimeOverwritten(st, tm) == tm

\* if (p.startTime === null) p.startTime = time
StartTimeAt(st, tm) == IF st = NULL THEN tm ELSE st

Dispatch ==
  /\ pc = "loop"
  /\ LoopCondition
  /\ LET alg == Variant(algorithm)
         e0 == enqueueArrivals(alg, procs, time, readyQueue, fgQueue, bgQueue, admissions)
     IN  /\ ~QueuesEmpty(alg, e0.readyQueue, e0.fgQueue, e0.bgQueue)
         /\ LET branch == IF alg # "MLQ" THEN "exec"
                          ELSE IF ServeForeground(e0.fgQueue, e0.bgQueue) THEN "execFg"
                          ELSE "execBg"
                q == CASE branch = "exec" -> SelectionOrder(alg, e0.procs, e0.readyQueue)
                       [] branch = "execFg" -> e0.fgQueue
                       [] branch = "execBg" -> e0.bgQueue
                id == Head(q)
                i == Idx(e0.procs, id)
                p == e0.procs[i]
            IN  /\ pid' = id
                /\ procs' = [e0.procs EXCEPT ![i].startTime = StartTimeAt(@, time)]
                /\ readyQueue' = IF branch = "exec" THEN Tail(q) ELSE e0.readyQueue
                /\ fgQueue' = IF branch = "execFg" THEN Tail(q) ELSE e0.fgQueue
                /\ bgQueue' = IF branch = "execBg" THEN Tail(q) ELSE e0.bgQueue
                /\ run' = SliceLength(alg, branch, p.remaining)
                /\ pc' = branch
         /\ admissions' = e0.admissions
  /\ iter' = iter + 1
  /\ t' = 0
  /\ UNCHANGED << algorithm, processes, options, time, history, trace, outcome, stats,
                  previous, animator >>

\* -------------------------------------------------------------- ExecUnit
\* Mutant of MoreToRun: a background slice ends as soon as a foreground process
\* is waiting.
MoreToRunUnlessForeground(rn, tt, rem) ==
  /\ IF rn = NULL THEN rem > 0 ELSE tt < rn
  /\ ~(pc = "execBg" /\ Len(fgQueue) > 0)

\* The guard of the loop that runs the dispatched process: t < run in a
\* quantum slice, p.remaining > 0 in a run to completion.
MoreToRun(rn, tt, rem) == IF rn = NULL THEN rem > 0 ELSE tt < rn

\* Mutant of Decrement: a unit of CPU takes up to two units off remaining.
DecrementTwice(rem) == IF rem > 1 THEN rem - 2 ELSE 0

\* p.remaining -= 1
Decrement(rem) == rem - 1

\* Mutant of ExecUnit: the unit does not end with enqueueArrivals(); what arrives
\* during a slice is pushed at the top of the next iteration.
ExecUnitWithoutArrivals ==
  /\ Executing
  /\ MoreToRun(run, t, Proc(pid).remaining)
  /\ history' = Append(history, snapshotState(time, pid,
                   [procs EXCEPT ![Idx(procs, pid)].remaining = Decrement(@)],
                   ReadyView(Variant(algorithm), readyQueue, fgQueue, bgQueue)))
  /\ trace' = Append(trace, traceEvent(time, pid,
                 ReadyView(Variant(algorithm), readyQueue, fgQueue, bgQueue)))
  /\ time' = time + 1
  /\ procs' = [procs EXCEPT ![Idx(procs, pid)].remaining = Decrement(@)]
  /\ t' = t + 1
  /\ UNCHANGED << algorithm, processes, options, iter, pc, pid, run, outcome, stats,
                  previous, animator, readyQueue, fgQueue, bgQueue, admissions >>

\* One unit of CPU: remaining -= 1, snapshot and trace entry, time++,
\* enqueueArrivals().  t counts the units of the slice.
ExecUnit ==
  /\ Executing
  /\ MoreToRun(run, t, Proc(pid).remaining)
  /\ LET alg == Variant(algorithm)
         ps1 == [procs EXCEPT ![Idx(procs, pid)].remaining = Decrement(@)]
         ready == ReadyView(alg, readyQueue, fgQueue, bgQueue)
         e == enqueueArrivals(alg, ps1, time + 1, readyQueue, fgQueue, bgQueue, admissions)
     IN  /\ history' = Append(history, snapshotState(time, pid, ps1, ready))
         /\ trace' = Append(trace, traceEvent(time, pid, ready))
         /\ time' = time + 1
         /\ procs' = e.procs
         /\ readyQueue' = e.readyQueue
         /\ fgQueue' = e.fgQueue
         /\ bgQueue' = e.bgQueue
         /\ admissions' = e.admissions
  /\ t' = t + 1
  /\ UNCHANGED << algorithm, processes, options, iter, pc, pid, run, outcome, stats,
                  previous, animator >>

\* -------------------------------------------------------------- EndSlice
\* Mutant of Requeue: the preempted pid is not put back.
RequeueDropped(q, id) == q

\* Mutant of Requeue: the preempted pid is put at the head of its queue.
RequeueAtHead(q, id) == << id >> \o q

\* readyQueue.push(pid), fgQueue.push(pid), bgQueue.push(pid)
Requeue(q, id) == Append(q, id)

\* After the slice: a run to completion sets completionTime; a quantum slice
\* sets it when remaining is 0 and puts the pid back on its queue otherwise.
EndSlice ==
  /\ Executing
  /\ ~MoreToRun(run, t, Proc(pid).remaining)
  /\ LET i == Idx(procs, pid)
         completes == run = NULL \/ procs[i].remaining = 0
     IN  /\ procs' = IF completes THEN [procs EXCEPT ![i].completionTime = time] ELSE procs
         /\ readyQueue' = IF ~completes /\ pc = "exec" THEN Requeue(readyQueue, pid) ELSE readyQueue
         /\ fgQueue' = IF ~completes /\ pc = "execFg" THEN Requeue(fgQueue, pid) ELSE fgQueue
         /\ bgQueue' = IF ~completes /\ pc = "execBg" THEN Requeue(bgQueue, pid) ELSE bgQueue
  /\ pc' = "loop"
  /\ UNCHANGED << algorithm, processes, options, time, history, trace, iter, pid, run, t,
                  admissions, outcome, stats, previous, animator >>

\* -------------------------------------------------------------- Finalize
\* The finalization after the loop: default completionTime, turnaround, waiting,
\* default startTime.
Finalized(ps, tm) ==
  [ i \in 1..Len(ps) |->
      LET ct == IF ps[i].completionTime = NULL THEN tm ELSE ps[i].completionTime
          ta == ct - ps[i].arrival
      IN  [ps[i] EXCEPT !.completionTime = ct, !.turnaround = ta, !.waiting = ta - ps[i].burst,
                        !.startTime = IF @ = NULL THEN ps[i].arrival ELSE @] ]

\* The loop ends: its condition is false, or an iteration finds the ready
\* structures empty and no process left to admit (break).  The simulator then
\* finalizes the processes, computes the statistics and returns; no path of
\* simulate or of a simulator throws.
Finalize ==
  /\ pc = "loop"
  /\ LET alg == Variant(algorithm)
         e0 == enqueueArrivals(alg, procs, time, readyQueue, fgQueue, bgQueue, admissions)
         breaks == /\ LoopCondition
                   /\ QueuesEmpty(alg, e0.readyQueue, e0.fgQueue, e0.bgQueue)
                   /\ NextPending(e0.procs) = NULL
     IN  /\ ~LoopCondition \/ breaks
         /\ procs' = Finalized(IF breaks THEN e0.procs ELSE procs, time)
         /\ readyQueue' = IF breaks THEN e0.readyQueue ELSE readyQueue
         /\ fgQueue' = IF breaks THEN e0.fgQueue ELSE fgQueue
         /\ bgQueue' = IF breaks THEN e0.bgQueue ELSE bgQueue
         /\ admissions' = IF breaks THEN e0.admissions ELSE admissions
         /\ iter' = IF breaks THEN iter + 1 ELSE iter
         /\ stats' = computeStats(Finalized(IF breaks THEN e0.procs ELSE procs, time))
  /\ pc' = "done"
  /\ outcome' = "returned"
  /\ UNCHANGED << algorithm, processes, options, time, history, trace, pid, run, t,
                  previous, animator >>

Next == Idle \/ Dispatch \/ ExecUnit \/ EndSlice \/ Finalize

\* -------------------------------------------------------- a second call
\* Mutant of LocalTime: the clock is kept between calls.
ModuleTime(tm) == tm

\* let time = 0: the clock, as every other variable of a simulator, is a local
\* of the call.
LocalTime(tm) == 0

\* simulate is called again with the same arguments after it has returned: the
\* call maps the list to fresh process states and starts from fresh locals.
SimulateAgain ==
  /\ pc = "done"
  /\ ~previous.returned
  /\ previous' = [returned |-> TRUE, trace |-> trace, historySnapshots |-> history,
                  stats |-> stats]
  /\ LET alg == Variant(algorithm)
         e == enqueueArrivals(alg, SortedProcs(alg, InitialState(processes)), LocalTime(time),
                              << >>, << >>, << >>, << >>)
     IN  /\ procs' = e.procs
         /\ readyQueue' = e.readyQueue
         /\ fgQueue' = e.fgQueue
         /\ bgQueue' = e.bgQueue
         /\ admissions' = e.admissions
  /\ time' = LocalTime(time)
  /\ history' = << >>
  /\ trace' = << >>
  /\ iter' = 0
  /\ pc' = "loop"
  /\ pid' = NULL
  /\ run' = NULL
  /\ t' = 0
  /\ outcome' = "running"
  /\ stats' = NoStats
  /\ UNCHANGED << algorithm, processes, options, animator >>

NextTwice == Next \/ SimulateAgain

Init == InitFor(Algorithms)

Spec == Init /\ [][Next]_vars

\* simulate is one synchronous call: the engine runs it step after step until
\* it returns, so a step that can be taken is taken.
InitFair ==
  /\ algorithm \in Algorithms
  /\ processes \in ListsUpTo(algorithm, MaxProcsFair)
  /\ options \in OptionsFor(algorithm)
  /\ Start

FairSpec == InitFair /\ [][Next]_vars /\ WF_vars(Next)

\* Two calls of simulate with the same arguments, one after the other.
SpecTwice == InitFair /\ [][NextTwice]_vars

\* The runs of one algorithm.
InitRR == InitFor({"RR"})
InitFCFS == InitFor({"FCFS"})
InitSJF == InitFor({"SJF"})
InitPriority == InitFor({"PRIORITY"})
InitMLQ == InitFor({"MLQ"})
InitNonPreemptive == InitFor({"FCFS", "SJF", "PRIORITY"})

SpecRR == InitRR /\ [][Next]_vars
SpecFCFS == InitFCFS /\ [][Next]_vars
SpecSJF == InitSJF /\ [][Next]_vars
SpecPriority == InitPriority /\ [][Next]_vars
SpecMLQ == InitMLQ /\ [][Next]_vars
SpecNonPreemptive == InitNonPreemptive /\ [][Next]_vars

\* The calls that reach the iteration ceiling: RR with quantum 0, where the
\* dispatched process makes no progress and is put back in every iteration;
\* beside them the RR calls with valid options.
ZeroQuantum == [NoOptions EXCEPT !.quantum = 0]

InitCeiling ==
  /\ algorithm = "RR"
  /\ \/ processes \in ListsUpTo(algorithm, MaxProcsFair) /\ options \in OptionsFor(algorithm)
     \/ processes = << Descriptor(0, 1, UNDEF) >> /\ options = ZeroQuantum
  /\ Start

SpecCeiling == InitCeiling /\ [][Next]_vars

\* The calls simulate accepts without a check of its arguments: a tag that is
\* none of the five (the switch's default case), the empty list, and bursts
\* that are 0 or negative, beside the valid ones.
UnknownTag == "SRTF"

AnyListsFor(alg) ==
  LET prios == IF alg \in {"PRIORITY", "MLQ"} THEN 0..MaxPriority ELSE {UNDEF}
      D == { Descriptor(a, b, pr) :
               a \in 0..MaxArrival, b \in (0 - MaxBurst)..MaxBurst, pr \in prios }
  IN  { << >> } \cup UNION { [1..n -> D] : n \in 1..MaxProcsFair }

InitUnchecked ==
  /\ algorithm \in Algorithms \cup { UnknownTag }
  /\ processes \in AnyListsFor(algorithm)
  /\ options \in OptionsFor(algorithm)
  /\ Start

SpecUnchecked == InitUnchecked /\ [][Next]_vars

\* The RR calls with quantum 2, among them the one on the sample.
QuantumTwo == [NoOptions EXCEPT !.quantum = 2]

InitRRQuantumTwo ==
  /\ algorithm = "RR"
  /\ processes \in ListsUpTo(algorithm, MaxProcsFair)
  /\ options = QuantumTwo
  /\ Start

SpecRRQuantumTwo == InitRRQuantumTwo /\ [][Next]_vars

\* -------------------------------------------------------------- Animator
\* The simulator's variables, which no method of the Animator touches.
engine == << algorithm, processes, options, procs, time, readyQueue, fgQueue, bgQueue,
             history, trace, iter, pc, pid, run, t, admissions, outcome, stats, previous >>

Max(a, b) == IF a > b THEN a ELSE b

\* Mutant of clamp: the upper limit is not applied.
clampBelow(v, a, b) == Max(a, v)

\* clamp(v, a, b): Math.max(a, Math.min(b, v))
clamp(v, a, b) == Max(a, Min(b, v))

\* Math.max(0, this.history.length - 1)
LastIndex(h) == Max(0, Len(h) - 1)

\* The snapshot sequences given to loadHistory: of 0 to MaxHistory time units.
Histories ==
  { [ k \in 1..n |-> snapshotState(k - 1, NULL, << >>, << >>) ] : n \in 0..MaxHistory }

\* The indices given to jumpTo: any integer, among them ones outside the history.
JumpTargets == (0 - 1)..(MaxHistory + 1)

\* The Animator a after each of its cursor methods.
Loaded(a, h) == [a EXCEPT !.history = h, !.current = 0]
SteppedForward(a) == [a EXCEPT !.current = clamp(@ + 1, 0, LastIndex(a.history))]
SteppedBackward(a) == [a EXCEPT !.current = clamp(@ - 1, 0, LastIndex(a.history))]
Jumped(a, index) == [a EXCEPT !.current = clamp(index, 0, LastIndex(a.history))]

loadHistory(h) ==
  /\ animator' = Loaded(animator, h)
  /\ UNCHANGED engine

stepForward ==
  /\ animator' = SteppedForward(animator)
  /\ UNCHANGED engine

stepBackward ==
  /\ animator' = SteppedBackward(animator)
  /\ UNCHANGED engine

jumpTo(index) ==
  /\ animator' = Jumped(animator, index)
  /\ UNCHANGED engine

\* requestAnimationFrame(step) in the Animator a: the next handle, now pending.
Requested(a) ==
  [a EXCEPT !.requests = @ + 1, !.raf = a.requests + 1, !.pending = @ \cup { a.requests + 1 }]

\* Mutant of Played: play() starts a stepping loop whether or not one runs.
PlayedUnguarded(a) == Requested([a EXCEPT !.playing = TRUE])

\* play(): nothing while playing; else playing = true and the first frame of a
\* new stepping loop is requested.
Played(a) == IF a.playing THEN a ELSE Requested([a EXCEPT !.playing = TRUE])

play ==
  /\ animator.requests < MaxFrames
  /\ animator' = Played(animator)
  /\ UNCHANGED engine

\* Mutant of Paused: the requested frame is not cancelled.
PausedWithoutCancel(a) == [a EXCEPT !.playing = FALSE]

\* pause(): playing = false; if (this._raf) cancelAnimationFrame(this._raf)
Paused(a) ==
  [a EXCEPT !.playing = FALSE, !.pending = IF a.raf # NULL THEN @ \ { a.raf } ELSE @]

pause ==
  /\ animator' = Paused(animator)
  /\ UNCHANGED engine

\* The animation frame id runs the step callback of its loop: stepForward() when
\* the interval has elapsed (due), then the next frame is requested if playing.
Frame(id, due) ==
  /\ id \in animator.pending
  /\ animator.requests < MaxFrames
  /\ LET a0 == [animator EXCEPT !.pending = @ \ { id }]
         a1 == IF due THEN SteppedForward(a0) ELSE a0
     IN  animator' = IF a1.playing THEN Requested(a1) ELSE a1
  /\ UNCHANGED engine

\* The timeline's input handler: animator.pause(); animator.jumpTo(value)
scrub(index) ==
  /\ animator' = Jumped(Paused(animator), index)
  /\ UNCHANGED engine

NextAnimator ==
  \/ \E h \in Histories : loadHistory(h)
  \/ stepForward
  \/ stepBackward
  \/ \E index \in JumpTargets : jumpTo(index)
  \/ play
  \/ pause
  \/ \E id \in animator.pending : \E due \in BOOLEAN : Frame(id, due)
  \/ \E index \in JumpTargets : scrub(index)

\* The interface with its Animator, before and between simulations.
InitAnimator ==
  /\ algorithm = "RR"
  /\ processes = SamplePlain
  /\ options = NoOptions
  /\ Start

SpecAnimator == InitAnimator /\ [][NextAnimator]_vars

\* ------------------------------------------------------------ properties
\* Commonly used views of the state.
PidSet == 1..Len(processes)
InSeq(x, q) == \E k \in 1..Len(q) : q[k] = x
NoDuplicates(q) == \A a, b \in 1..Len(q) : q[a] = q[b] => a = b
PosIn(x, q) == CHOOSE k \in 1..Len(q) : q[k] = x

\* C1: in every algorithm a trace event at time t is idle (cpu = none) only if
\* no process with arrival <= t still has remaining work, so that an idle
\* stretch ends at the earliest arrival among the processes still to be
\* admitted and not later.
C1_IdleOnlyWhenNothingArrived ==
  \A k \in 1..Len(history) :
    history[k].cpu = NULL =>
      \A i \in 1..Len(history[k].procs) :
        ~(history[k].procs[i].arrival <= history[k].time /\ history[k].procs[i].remaining > 0)

\* C2: in every algorithm each process is admitted into a ready structure
\* exactly once, at the time unit equal to its arrival time: it is in the ready
\* contents or on the CPU in the snapshot of its arrival time, also when
\* another process holds the CPU then.
C2_AdmittedOnceAtArrival ==
  /\ \A k \in 1..Len(admissions) :
       admissions[k][2] = processes[admissions[k][1]].arrival
  /\ \A a, b \in 1..Len(admissions) : admissions[a][1] = admissions[b][1] => a = b
  /\ \A k \in 1..Len(history) : \A i \in 1..Len(history[k].procs) :
       history[k].procs[i].arrival = history[k].time =>
         \/ history[k].cpu = history[k].procs[i].pid
         \/ InSeq(history[k].procs[i].pid, history[k].ready)
  /\ pc = "done" => \A id \in PidSet : \E k \in 1..Len(admissions) : admissions[k][1] = id

\* The state right after a slice of the process pid has ended (EndSlice).
SliceEnded == pc = "loop" /\ pid # NULL

\* The last n trace events all show id on the CPU.
LastEventsOf(id, n) ==
  /\ n <= Len(trace)
  /\ \A k \in (Len(trace) - n + 1)..Len(trace) : trace[k].cpu = id

BgQuantumSupplied == options.mlqBgQuantum # UNDEF /\ options.mlqBgQuantum # NULL

\* C3: under MLQ called through simulate, when no mlqBgQuantum is supplied
\* (absent or null) a dispatched background process runs to completion and is
\* neither preempted nor re-enqueued; when one is supplied the background
\* process is preempted after min(mlqBgQuantum, remaining) units and
\* re-enqueued at the tail of the background queue.
C3_BackgroundFCFSUnlessQuantum ==
  (algorithm = "MLQ" /\ SliceEnded /\ ~IsForeground(Proc(pid))) =>
    /\ LastEventsOf(pid, t)
    /\ IF BgQuantumSupplied
         THEN /\ t = Min(options.mlqBgQuantum, Proc(pid).remaining + t)
              /\ Proc(pid).remaining > 0 =>
                   Len(bgQueue) > 0 /\ bgQueue[Len(bgQueue)] = pid
         ELSE /\ Proc(pid).remaining = 0
              /\ ~InSeq(pid, bgQueue)

\* C4: under MLQ a background process (priority # 0) is selected at a dispatch
\* decision only if no foreground process (priority = 0) is admitted and
\* incomplete at that time.
C4_ForegroundFirst ==
  (pc = "execBg" /\ t = 0) =>
    /\ ~IsForeground(Proc(pid))
    /\ \A i \in 1..Len(procs) :
         ~(IsForeground(procs[i]) /\ procs[i].remaining > 0
             /\ (procs[i].enqueued \/ procs[i].arrival <= time))

\* A background process is dispatched after a foreground process has completed
\* and while another foreground process is still to arrive.
C4_Witness ==
  /\ pc = "execBg" /\ t = 0
  /\ \E i \in 1..Len(procs) : IsForeground(procs[i]) /\ procs[i].remaining = 0
  /\ \E i \in 1..Len(procs) : IsForeground(procs[i]) /\ procs[i].arrival > time

\* C5: under Round Robin with quantum Q >= 1 every scheduling turn of a process
\* is exactly min(Q, remaining) consecutive CPU units: a process never has more
\* than Q units in a turn, and the turn ends with the process complete or
\* re-enqueued at the tail of the ready queue.
C5_RRQuantumSlices ==
  algorithm = "RR" =>
    /\ pc = "exec" => t <= quantum /\ LastEventsOf(pid, t)
    /\ SliceEnded =>
         /\ t = Min(quantum, Proc(pid).remaining + t)
         /\ LastEventsOf(pid, t)
         /\ IF Proc(pid).remaining = 0
              THEN Proc(pid).completionTime = time /\ ~InSeq(pid, readyQueue)
              ELSE Len(readyQueue) > 0 /\ readyQueue[Len(readyQueue)] = pid

\* A turn that used the whole quantum and left work: the process is preempted.
C5_Witness ==
  /\ algorithm = "RR" /\ SliceEnded
  /\ t = quantum /\ Proc(pid).remaining > 0
  /\ Len(readyQueue) > 1

\* C6: under Round Robin a process preempted with work remaining is re-enqueued
\* at the tail of the ready queue, behind every process whose arrival time is
\* <= the time at which its slice ends, a process arriving exactly at the end
\* of the slice included.
C6_RequeueBehindArrivals ==
  (algorithm = "RR" /\ SliceEnded /\ Proc(pid).remaining > 0) =>
    /\ Len(readyQueue) > 0 /\ readyQueue[Len(readyQueue)] = pid
    /\ NoDuplicates(readyQueue)
    /\ \A i \in 1..Len(procs) :
         (procs[i].pid # pid /\ procs[i].arrival <= time /\ procs[i].remaining > 0) =>
           /\ InSeq(procs[i].pid, readyQueue)
           /\ PosIn(procs[i].pid, readyQueue) < Len(readyQueue)

\* A process is preempted at the very time another process arrives.
C6_Witness ==
  /\ algorithm = "RR" /\ SliceEnded /\ Proc(pid).remaining > 0
  /\ \E i \in 1..Len(procs) :
       /\ procs[i].pid # pid /\ procs[i].arrival = time /\ time > 0
       /\ InSeq(procs[i].pid, readyQueue)

\* The state at a dispatch decision: pid has just been selected, no unit has run.
Dispatched == Executing /\ t = 0

\* The processes other than pid that are admitted (or have arrived) and incomplete.
Waiting(i) ==
  /\ procs[i].pid # pid
  /\ procs[i].remaining > 0
  /\ (procs[i].enqueued \/ procs[i].arrival <= time)

\* C7: under SJF the process selected at a dispatch decision has the minimum
\* remaining time among all admitted incomplete processes and, among those of
\* equal remaining time, the earliest arrival: no process with strictly smaller
\* remaining time is passed over.
C7_SJFShortestFirst ==
  (algorithm = "SJF" /\ Dispatched) =>
    \A i \in 1..Len(procs) :
      Waiting(i) =>
        /\ procs[i].enqueued /\ InSeq(procs[i].pid, readyQueue)
        /\ \/ Proc(pid).remaining < procs[i].remaining
           \/ /\ Proc(pid).remaining = procs[i].remaining
              /\ Proc(pid).arrival <= procs[i].arrival

\* SJF selects a process over one that arrived earlier and has more remaining.
C7_Witness ==
  /\ algorithm = "SJF" /\ Dispatched
  /\ \E i \in 1..Len(procs) :
       /\ Waiting(i)
       /\ procs[i].arrival < Proc(pid).arrival
       /\ procs[i].remaining > Proc(pid).remaining

\* C8: under PRIORITY the process selected at a dispatch decision has the
\* minimum priority value among all admitted incomplete processes, ties broken
\* by earliest arrival and then by smallest burst: no process with strictly
\* smaller priority value is passed over.
C8_PriorityOrder ==
  (algorithm = "PRIORITY" /\ Dispatched) =>
    \A i \in 1..Len(procs) :
      Waiting(i) =>
        /\ procs[i].enqueued /\ InSeq(procs[i].pid, readyQueue)
        /\ \/ Proc(pid).priority < procs[i].priority
           \/ /\ Proc(pid).priority = procs[i].priority
              /\ Proc(pid).arrival < procs[i].arrival
           \/ /\ Proc(pid).priority = procs[i].priority
              /\ Proc(pid).arrival = procs[i].arrival
              /\ Proc(pid).burst <= procs[i].burst

\* PRIORITY selects, among processes of equal priority and arrival, the one of
\* smaller burst although it stands later in the input, while a process of
\* larger priority value that arrived earlier keeps waiting.
C8_Witness ==
  /\ algorithm = "PRIORITY" /\ Dispatched
  /\ \E i \in 1..Len(procs) :
       /\ Waiting(i)
       /\ procs[i].priority = Proc(pid).priority
       /\ procs[i].arrival = Proc(pid).arrival
       /\ procs[i].burst > Proc(pid).burst
       /\ procs[i].pid < pid
  /\ \E i \in 1..Len(procs) :
       /\ Waiting(i)
       /\ procs[i].priority > Proc(pid).priority
       /\ procs[i].arrival < Proc(pid).arrival

\* The pids in the order of their admission into the ready structure.
AdmissionOrder == [ k \in 1..Len(admissions) |-> admissions[k][1] ]

\* The pids in the order of their completion times.
CmpCompletion(a, b) == a.completionTime - b.completionTime
CompletionOrder ==
  Pids(StableSort(procs, [ i \in 1..Len(procs) |->
                           [ j \in 1..Len(procs) |-> CmpCompletion(procs[i], procs[j]) ] ]))

\* The number of trace events in which id holds the CPU.
ExecCount(id) == Cardinality({ k \in 1..Len(trace) : trace[k].cpu = id })

\* C9: under FCFS the processes complete in the order of their admission into
\* the ready queue, which is ascending arrival time with equal arrivals in
\* input order; when all arrive at time 0 the completion order is the input
\* order; and P1(0,5), P2(1,3), P3(2,8), P4(3,6) complete in the order P1, P2,
\* P3, P4 with P1.completionTime = 5 and P1.waiting = 0.
C9_FCFSCompletionOrder ==
  (algorithm = "FCFS" /\ pc = "done") =>
    /\ Len(admissions) = Len(processes)
    /\ CompletionOrder = AdmissionOrder
    /\ \A a, b \in 1..Len(procs) : a # b => procs[a].completionTime # procs[b].completionTime
    /\ \A a, b \in 1..Len(admissions) :
         a < b =>
           \/ processes[AdmissionOrder[a]].arrival < processes[AdmissionOrder[b]].arrival
           \/ /\ processes[AdmissionOrder[a]].arrival = processes[AdmissionOrder[b]].arrival
              /\ AdmissionOrder[a] < AdmissionOrder[b]
    /\ (\A i \in PidSet : processes[i].arrival = 0) =>
         CompletionOrder = [ i \in 1..Len(processes) |-> i ]
    /\ processes = SamplePlain =>
         /\ CompletionOrder = << 1, 2, 3, 4 >>
         /\ Proc(1).completionTime = 5
         /\ Proc(1).waiting = 0

\* The FCFS run of P1(0,5), P2(1,3), P3(2,8), P4(3,6) has ended.
C9_Witness ==
  /\ algorithm = "FCFS" /\ pc = "done"
  /\ processes = SamplePlain
  /\ Len(trace) = 22

\* C10: under FCFS, SJF and PRIORITY a selected process occupies the CPU in
\* consecutive trace events until its remaining time is 0: between its first
\* and its last exec event there is no exec event of another process and no
\* idle event, whatever arrives meanwhile.
C10_RunToCompletion ==
  algorithm \in {"FCFS", "SJF", "PRIORITY"} =>
    /\ \A a, b \in 1..Len(trace) :
         (a < b /\ trace[a].cpu # NULL /\ trace[a].cpu = trace[b].cpu) =>
           \A k \in a..b : trace[k].cpu = trace[a].cpu
    /\ Executing => LastEventsOf(pid, t) /\ ExecCount(pid) = t
    /\ SliceEnded =>
         /\ Proc(pid).remaining = 0
         /\ t = Proc(pid).burst
         /\ LastEventsOf(pid, t)
         /\ ExecCount(pid) = t
    /\ pc = "done" => \A id \in PidSet : ExecCount(id) = processes[id].burst

\* A process has run its burst of several units to completion while another
\* process arrived and waited.
C10_Witness ==
  /\ algorithm \in {"FCFS", "SJF", "PRIORITY"} /\ SliceEnded
  /\ Proc(pid).burst > 1
  /\ \E i \in 1..Len(procs) :
       /\ procs[i].arrival > Proc(pid).startTime
       /\ procs[i].arrival < time
       /\ InSeq(procs[i].pid, readyQueue)

\* C11: in every algorithm and for every valid input (integer arrival >= 0,
\* integer burst >= 1, quanta >= 1) every process ends with
\* waiting = completionTime - arrival - burst, which is >= 0, and hence with
\* turnaround >= burst.
C11_WaitingNonNegative ==
  pc = "done" =>
    \A i \in 1..Len(procs) :
      /\ procs[i].waiting = procs[i].completionTime - procs[i].arrival - procs[i].burst
      /\ procs[i].waiting >= 0
      /\ procs[i].turnaround = procs[i].waiting + procs[i].burst
      /\ procs[i].turnaround >= procs[i].burst

\* A run has ended in which one process did not wait at all and another did.
C11_Witness ==
  /\ pc = "done"
  /\ \E i, j \in 1..Len(procs) : procs[i].waiting = 0 /\ procs[j].waiting > 0

C13_CeilingFails ==
  (pc = "done" /\ iter >= maxIter) =>
    /\ outcome = "InternalLimitExceeded"
    /\ stats = NoStats

\* C14: simulate called with a process whose burst is <= 0 fails with
\* InvalidInput and returns no trace and no statistics.
C14_NonPositiveBurstFails ==
  (pc = "done" /\ \E i \in PidSet : processes[i].burst <= 0) =>
    /\ outcome = "InvalidInput"
    /\ stats = NoStats

\* C15: simulate called with an empty process list fails with InvalidInput
\* before the statistics are computed; it never returns statistics that
\* contain NaN or an infinite value.
C15_EmptyListFails ==
  /\ (pc = "done" /\ Len(processes) = 0) => outcome = "InvalidInput" /\ stats = NoStats
  /\ outcome = "returned" =>
       \A f \in DOMAIN stats : stats[f].kind = "finite"

\* C16: simulate called with a tag that is none of RR, FCFS, SJF, PRIORITY
\* and MLQ fails at once with UnsupportedAlgorithm and runs no scheduling
\* algorithm: no loop iteration, no trace event.
C16_UnknownTagFails ==
  algorithm \notin Algorithms =>
    /\ iter = 0
    /\ Len(trace) = 0
    /\ pc = "done" => outcome = "UnsupportedAlgorithm"

\* C17: in every algorithm and for every input trace and historySnapshots have
\* the same length, and for every index i (from 0) the i-th trace event and the
\* i-th snapshot both have time = i, with no gap and no repeat, and agree on
\* the CPU occupant and on the ready contents.
C17_TraceMatchesSnapshots ==
  /\ Len(trace) = Len(history)
  /\ \A k \in 1..Len(trace) :
       /\ trace[k].time = k - 1
       /\ history[k].time = k - 1
       /\ trace[k].cpu = history[k].cpu
       /\ trace[k].ready = history[k].ready

\* A run has idled for two units in a row, executed, and shown waiting
\* processes in an event.
C17_Witness ==
  /\ \E k \in 1..Len(trace) - 2 :
       trace[k].cpu = NULL /\ trace[k + 1].cpu = NULL /\ trace[k + 2].cpu # NULL
  /\ \E k \in 1..Len(trace) : Len(history[k].ready) > 0

\* The trace events in which id holds the CPU.
ExecEvents(id) == { k \in 1..Len(trace) : trace[k].cpu = id }

\* C18: in every algorithm and for every valid input a process's startTime is
\* the time of the first trace event in which it holds the CPU and never
\* changes afterwards, and its completionTime is the time of its last exec
\* event plus 1, set once, when its remaining first reaches 0.
C18_StartAndCompletion ==
  /\ [](\A i \in 1..Len(procs) :
         LET p == procs[i]
             E == ExecEvents(p.pid)
             first == CHOOSE k \in E : \A j \in E : k <= j
             last == CHOOSE k \in E : \A j \in E : j <= k
             running == Executing /\ pid = p.pid
         IN  /\ E # {} => p.startTime = trace[first].time
             /\ (E = {} /\ p.startTime # NULL) => (running /\ t = 0 /\ p.startTime = time)
             /\ p.completionTime # NULL =>
                  /\ p.remaining = 0
                  /\ E # {}
                  /\ p.completionTime = trace[last].time + 1
             /\ (p.remaining = 0 /\ ~running) => p.completionTime # NULL)
  /\ [][\A i \in 1..Len(procs) :
          /\ procs[i].startTime # NULL => procs'[i].startTime = procs[i].startTime
          /\ procs[i].completionTime # NULL =>
               procs'[i].completionTime = procs[i].completionTime]_vars

\* A process that was preempted and dispatched again has completed.
C18_Witness ==
  \E i \in 1..Len(procs) :
    /\ procs[i].completionTime # NULL
    /\ procs[i].completionTime - procs[i].startTime > procs[i].burst

\* C19: in every algorithm a process's waiting (turnaround - burst) equals the
\* number of snapshots whose ready contents hold its pid, for valid process
\* lists given in any input order.
C19_WaitingCountsReadySnapshots ==
  pc = "done" =>
    \A i \in 1..Len(procs) :
      /\ procs[i].waiting = procs[i].turnaround - procs[i].burst
      /\ procs[i].waiting =
           Cardinality({ k \in 1..Len(history) : InSeq(procs[i].pid, history[k].ready) })

\* P1's first slice has ended and P1 is not yet put back.
FirstPreemption == pc = "exec" /\ pid = 1 /\ Len(trace) = 2 /\ ~MoreToRun(run, t, Proc(pid).remaining)

C21_SingleProcess ==
  (pc = "done" /\ Len(processes) = 1) =>
    LET a == processes[1].arrival
        b == processes[1].burst
    IN  /\ Len(trace) = a + b
        /\ \A k \in 1..Len(trace) : trace[k].cpu = IF k <= a THEN NULL ELSE 1
        /\ procs[1].completionTime = a + b
        /\ procs[1].waiting = 0
        /\ stats.makespan = Finite(b)
        /\ stats.avgWaiting = Finite(0)
        /\ stats.throughput = Divide(1, IF a + b > 1 THEN a + b ELSE 1)
        /\ (a = 0 /\ b = 1) =>
             /\ stats.makespan = Finite(1)
             /\ stats.throughput = Finite(1)

\* The run of a single process that arrives late and has a burst of several
\* units has ended.
C21_Witness ==
  /\ pc = "done" /\ Len(processes) = 1
  /\ processes[1].arrival > 0
  /\ processes[1].burst > 1

C23_RemainingDecrements ==
  /\ [](/\ \A i \in 1..Len(procs) : procs[i].remaining >= 0
        /\ \A k \in 1..Len(history) :
             LET ps == history[k].procs
             IN  /\ \A i \in 1..Len(ps) : ps[i].remaining >= 0
                 /\ SumOf([ i \in 1..Len(ps) |-> ps[i].burst - ps[i].remaining ])
                      = Cardinality({ j \in 1..k : history[j].cpu # NULL }))
  /\ [][\A i \in 1..Len(procs) :
          procs'[i].remaining # procs[i].remaining =>
            /\ procs'[i].remaining = procs[i].remaining - 1
            /\ Len(trace') = Len(trace) + 1
            /\ trace'[Len(trace')].cpu = procs[i].pid
            /\ trace'[Len(trace')].time = time]_vars

\* A snapshot taken after an idle stretch shows two processes that have both
\* used the CPU.
C23_Witness ==
  \E k \in 1..Len(history) :
    /\ \E j \in 1..k : history[j].cpu = NULL
    /\ \E a, b \in 1..Len(history[k].procs) :
         /\ a # b
         /\ history[k].procs[a].remaining < history[k].procs[a].burst
         /\ history[k].procs[b].remaining < history[k].procs[b].burst

\* C24: in every snapshot of every algorithm (unique pids, bursts >= 1) the
\* ready contents hold no pid twice, never hold the pid that occupies the CPU
\* in that snapshot, and hold only processes with arrival <= the snapshot's
\* time and remaining > 0.
C24_ReadyContents ==
  \A k \in 1..Len(history) :
    LET snap == history[k]
    IN  /\ NoDuplicates(snap.ready)
        /\ ~InSeq(snap.cpu, snap.ready)
        /\ \A j \in 1..Len(snap.ready) :
             \E i \in 1..Len(snap.procs) :
               /\ snap.procs[i].pid = snap.ready[j]
               /\ snap.procs[i].arrival <= snap.time
               /\ snap.procs[i].remaining > 0

\* A snapshot shows two waiting processes, one of them preempted before.
C24_Witness ==
  \E k \in 1..Len(history) :
    /\ Len(history[k].ready) >= 2
    /\ \E i \in 1..Len(history[k].procs) :
         /\ InSeq(history[k].procs[i].pid, history[k].ready)
         /\ history[k].procs[i].remaining < history[k].procs[i].burst

\* The snapshots in which the process id waits while a background process
\* holds the CPU.
BehindBackground(id) ==
  { k \in 1..Len(history) :
      /\ InSeq(id, history[k].ready)
      /\ history[k].cpu # NULL
      /\ ~IsForeground(Proc(history[k].cpu)) }

\* C25: under MLQ a background process that has been dispatched keeps the CPU
\* for its whole slice (min(bgQuantum, remaining) units, or to completion in
\* FCFS mode) even if a foreground process is admitted during the slice; the
\* foreground process is dispatched at the next decision point, so that a
\* foreground process waits at most one background slice behind background work.
C25_BackgroundSliceNotInterrupted ==
  /\ [](algorithm = "MLQ" =>
         /\ pc = "execBg" =>
              /\ LastEventsOf(pid, t)
              /\ ~MoreToRun(run, t, Proc(pid).remaining) =>
                   IF RunsToCompletion(bgQuantum)
                   THEN Proc(pid).remaining = 0
                   ELSE t = Min(bgQuantum, Proc(pid).remaining + t)
         /\ \A i \in 1..Len(procs) :
              IsForeground(procs[i]) =>
                LET B == BehindBackground(procs[i].pid)
                IN  /\ \A a, b \in B : history[a].cpu = history[b].cpu
                    /\ \A a, b \in B : \A k \in a..b : k \in B
                    /\ RunsToCompletion(bgQuantum) \/ Cardinality(B) <= bgQuantum)
  /\ [][algorithm = "MLQ" =>
          /\ (pc = "execBg" /\ MoreToRun(run, t, Proc(pid).remaining)) =>
               /\ pc' = "execBg" /\ pid' = pid
               /\ trace' = Append(trace, traceEvent(time, pid, fgQueue \o bgQueue))
          /\ (pc = "loop" /\ Len(fgQueue) > 0 /\ pc' # "loop") =>
               pc' = "execFg" /\ pid' = Head(fgQueue)]_vars

\* A background process goes on with its slice while a foreground process that
\* was admitted during the slice waits.
C25_Witness ==
  /\ algorithm = "MLQ" /\ pc = "execBg"
  /\ t >= 1
  /\ MoreToRun(run, t, Proc(pid).remaining)
  /\ Len(fgQueue) > 0

\* C26: for the Animator, after any sequence of loadHistory, stepForward,
\* stepBackward and jumpTo(any integer index) the cursor current satisfies
\* 0 <= current <= max(0, history.length - 1); stepping forward at the last
\* snapshot and stepping backward at the first leave the cursor unchanged, and
\* loadHistory resets it to 0.
C26_CursorInRange ==
  /\ 0 <= animator.current
  /\ animator.current <= Max(0, Len(animator.history) - 1)
  /\ animator.current = Max(0, Len(animator.history) - 1) =>
       SteppedForward(animator).current = animator.current
  /\ animator.current = 0 => SteppedBackward(animator).current = 0
  /\ \A h \in Histories : Loaded(animator, h).current = 0
  /\ \A index \in JumpTargets :
       /\ 0 <= Jumped(animator, index).current
       /\ Jumped(animator, index).current <= Max(0, Len(animator.history) - 1)

\* The cursor stands on the last snapshot of a history of several snapshots.
C26_Witness ==
  /\ Len(animator.history) > 2
  /\ animator.current = Len(animator.history) - 1

\* C27: for the Animator, under any interleaving of play(), pause() and
\* animation-frame callbacks at most one timed stepping loop is active at a
\* time (play() while playing starts no second loop), and after pause() no
\* automatic stepForward occurs until the next play().
C27_SingleSteppingLoop ==
  /\ [](/\ Cardinality(animator.pending) <= 1
        /\ animator.playing => animator.pending = { animator.raf }
        /\ ~animator.playing => animator.pending = {}
        /\ animator.playing => Played(animator).pending = animator.pending)
  /\ [][(\E id \in animator.pending : Frame(id, TRUE)) => animator.playing]_vars

\* Playback was paused and started again, and a frame of the new loop is pending.
C27_Witness ==
  /\ animator.playing
  /\ animator.requests >= 3
  /\ animator.pending = { animator.raf }
  /\ animator.current > 0

====
